---- MODULE Spec2Model ----
(***************************************************************************)
(* A model of pysnail/utils.py: the validators with their warn/error       *)
(* reporting policy, read_series, augment_data / reduce_data and           *)
(* likelihood_ratio_test.                                                   *)
(*                                                                         *)
(* Every function of the module is a pure function of its arguments (and,  *)
(* for is_file / read_series, of the file system it looks at).  A call is  *)
(* modelled by an operator that computes the call's outcome: the warnings  *)
(* it issued through warnings.warn, in order, and either the value it      *)
(* returned or the exception it raised.  The state is a call (a function    *)
(* and its arguments) and its outcome, pending until the call has run.     *)
(*                                                                         *)
(* Python objects are records with a "type" field.  Numbers carry "twice", *)
(* twice their value, so that the halves (1.5, -0.5, ...) are the          *)
(* non-integral floats of the model.  A message is the sequence of the     *)
(* pieces its f-string is made of.                                         *)
(***************************************************************************)
EXTENDS Integers, Sequences, FiniteSets, TLC

VARIABLES call, result

vars == <<call, result>>

(***************************************************************************)
(* Bounds of the model.                                                    *)
(***************************************************************************)
MaxInt == 2        \* numbers range over -MaxInt .. MaxInt (and their halves)
MaxIndex == 2      \* longest index of a Series / DataFrame
MaxLen == 3        \* most elements of an array
MaxNeg == 2        \* array elements go down to -MaxNeg
MaxLL == 2         \* log likelihoods range over -MaxLL .. MaxLL

SeqsUpTo(S, n) == UNION {[1..k -> S] : k \in 0..n}

Abs(i) == IF i < 0 THEN -i ELSE i

(***************************************************************************)
(* Python values.                                                          *)
(***************************************************************************)
PyNone == [type |-> "NoneType"]

PyBool(b) == [type |-> "bool", b |-> b]

PyTrue == PyBool(TRUE)

PyFalse == PyBool(FALSE)

PyNum(t, tw) == [type |-> t, twice |-> tw]

PyStr(p) == [type |-> "str", path |-> p]

\* A float of an array: finite, +-inf, nan, or the irrational log2(v) and its
\* negation, kept exact.
Fin(v) == [k |-> "fin", v |-> v]

Inf(s) == [k |-> "inf", v |-> s]

NaN == [k |-> "nan", v |-> 0]

\* numpy.ndarray (and a nested list of the same shape): the flat buffer in C
\* order and the shape.
NdArray(t, shape, data) == [type |-> t, shape |-> shape, data |-> data]

Series(index, data) == [type |-> "Series", index |-> index, data |-> data]

DataFrame(index) == [type |-> "DataFrame", index |-> index]

(***************************************************************************)
(* Outcomes of a call.                                                     *)
(***************************************************************************)
Return(value, warns) ==
    [kind |-> "return", value |-> value, exc |-> "", msg |-> <<>>, warns |-> warns]

Raise(exc, msg, warns) ==
    [kind |-> "raise", value |-> PyNone, exc |-> exc, msg |-> msg, warns |-> warns]

(***************************************************************************)
(* Type tests.                                                             *)
(***************************************************************************)
\* isinstance(target, int): bool is a subclass of int.
InstanceOfInt == {"int", "bool"}

\* np.issubdtype(dtype, np.integer): int maps to numpy.int64; bool does not.
SubdtypeInteger == {"int", "numpy.int64"}

\* isinstance(target, float): numpy.float64 is a subclass of float.
InstanceOfFloat == {"float", "numpy.float64"}

\* np.issubdtype(dtype, np.inexact): the floating and the complex types.
SubdtypeInexact == {"float", "numpy.float64", "complex", "numpy.complex128"}

\* The types whose instances have an is_integer() method.
HasIsInteger == {"int", "float", "numpy.float64"}

\* The value of a number, doubled.
Twice(x) == IF x.type = "bool" THEN (IF x.b THEN 2 ELSE 0) ELSE x.twice

\* str(x) of a number, None or a path, as the pieces it prints.
Digits(tw) ==
    IF tw % 2 = 0 THEN <<ToString(tw \div 2)>>
    ELSE <<(IF tw < 0 THEN "-" ELSE ""), ToString(Abs(tw) \div 2), ".5">>

Fmt(x) ==
    CASE x.type = "NoneType" -> <<"None">>
      [] x.type = "bool" -> <<(IF x.b THEN "True" ELSE "False")>>
      [] x.type = "str" -> x.path
      [] x.type \in {"int", "numpy.int64"} -> <<ToString(x.twice \div 2)>>
      [] x.type \in {"float", "numpy.float64"} ->
            IF x.twice % 2 = 0 THEN <<ToString(x.twice \div 2), ".0">>
            ELSE Digits(x.twice)
      [] x.type \in {"complex", "numpy.complex128"} ->
            <<"(">> \o Digits(x.twice) \o <<"+0j)">>
      [] OTHER -> <<"<", x.type, ">">>

(***************************************************************************)
(* is_integer                                                              *)
(***************************************************************************)
is_integer(target, name, warn, error) ==
    LET dtype == target.type IN
    IF dtype \in InstanceOfInt \/ dtype \in SubdtypeInteger
    THEN Return(PyTrue, <<>>)
    ELSE IF dtype \in InstanceOfFloat \/ dtype \in SubdtypeInexact
    THEN IF dtype \notin HasIsInteger
         THEN Raise("AttributeError",
                    <<"'", dtype, "' object has no attribute 'is_integer'">>, <<>>)
         ELSE IF Twice(target) % 2 = 0
         THEN Return(PyTrue, <<>>)
         ELSE LET message == <<name, " should be an integer, got value:">> \o Fmt(target)
                  w == IF warn THEN <<message>> ELSE <<>>
              IN  IF error THEN Raise("ValueError", message, w)
                  ELSE Return(PyFalse, w)
    ELSE LET message == <<name, " should be an integer or float number, ",
                          "got type: ", dtype>>
             w == IF warn THEN <<message>> ELSE <<>>
         IN  IF error THEN Raise("TypeError", message, w)
             ELSE Return(PyFalse, w)

(***************************************************************************)
(* is_positive_integer                                                     *)
(***************************************************************************)
is_positive_integer(x, name, warn, error) ==
    LET r == is_integer(x, name, warn, error) IN
    IF r.kind = "raise" THEN r
    ELSE IF r.value.b
    THEN IF Twice(x) > 0
         THEN Return(PyTrue, r.warns)
         ELSE LET message == <<name, " should be an positive integer, got value:">>
                                 \o Fmt(x)
                  w == IF warn THEN r.warns \o <<message>> ELSE r.warns
              IN  IF error THEN Raise("ValueError", message, w)
                  ELSE Return(PyFalse, w)
    ELSE Return(PyFalse, r.warns)

(***************************************************************************)
(* is_1darray                                                              *)
(***************************************************************************)
is_1darray(target, name, warn, error) ==
    IF target.type = "Series"
    THEN Return(PyTrue, <<>>)
    ELSE IF target.type = "list" \/ target.type = "ndarray"
    THEN LET ndim == Len(target.shape) IN
         IF ndim = 1
         THEN Return(PyTrue, <<>>)
         ELSE LET message == <<name, " should have dim = 1, got dim = ", ToString(ndim)>>
                  w == IF warn THEN <<message>> ELSE <<>>
              IN  IF error THEN Raise("ValueError", message, w)
                  ELSE Return(PyFalse, w)
    ELSE LET message == <<name, " should be an instance of list or numpy.ndarray, ",
                          "got type: ", target.type, ".">>
             w == IF warn THEN <<message>> ELSE <<>>
         IN  IF error THEN Raise("TypeError", message, w)
             ELSE Return(PyFalse, w)

(***************************************************************************)
(* The file system, and is_file                                            *)
(***************************************************************************)
Cwd == <<"/", "cwd">>

\* os.path.realpath: a relative path is taken from the working directory
\* (the model has no symbolic links and no "." or ".." components).
realpath(p) == IF Len(p) > 0 /\ p[1] = "/" THEN p ELSE Cwd \o p

\* os.path.isfile: the path names an existing regular file.
isfile(fs, p) == p \in DOMAIN fs /\ fs[p].kind = "file"

\* A variant whose missing-file branch follows the policy of the other
\* branches: warn if asked, raise if asked, else return False.
is_file_StandardPolicy(fs, target, name, warn, error) ==
    LET message == IF target.type = "str"
                   THEN realpath(target.path) \o <<" does not exist.">>
                   ELSE <<name, " should be an instance of str, got ", target.type, ".">>
        w == IF warn THEN <<message \o <<" Ignore it.">>>> ELSE <<>>
    IN  IF target.type = "str" /\ isfile(fs, realpath(target.path))
        THEN Return(PyTrue, <<>>)
        ELSE IF error THEN Raise("TypeError", message, w)
        ELSE Return(PyFalse, w)

is_file(fs, target, name, warn, error) ==
    IF target.type = "str"
    THEN LET path == realpath(target.path) IN
         IF isfile(fs, path)
         THEN Return(PyTrue, <<>>)
         ELSE LET message == path \o <<" does not exist.">> IN
              IF warn
              THEN Return(PyNone, <<message \o <<" Ignore it.">>>>)
              ELSE Raise("TypeError", message, <<>>)
    ELSE LET message == <<name, " should be an instance of str, got ", target.type, ".">>
             w == IF warn THEN <<message \o <<" Ignore it.">>>> ELSE <<>>
         IN  IF error THEN Raise("TypeError", message, w)
             ELSE Return(PyFalse, w)

(***************************************************************************)
(* is_series_dataframe                                                     *)
(***************************************************************************)
\* A variant that tests the error flag before the warn flag, and so raises
\* without having warned.
is_series_dataframe_RaiseFirst(target, name, warn, error) ==
    IF target.type \notin {"Series", "DataFrame"}
    THEN LET message == <<name, " should be an instance of pd.core.series.Series or ",
                          "pd.core.frame.DataFrame.">>
         IN  IF error THEN Raise("TypeError", message, <<>>)
             ELSE Return(PyFalse, IF warn THEN <<message \o <<" Ignore it.">>>> ELSE <<>>)
    ELSE Return(PyTrue, <<>>)

is_series_dataframe(target, name, warn, error) ==
    IF target.type \notin {"Series", "DataFrame"}
    THEN LET message == <<name, " should be an instance of pd.core.series.Series or ",
                          "pd.core.frame.DataFrame.">>
             w == IF warn THEN <<message \o <<" Ignore it.">>>> ELSE <<>>
         IN  IF error THEN Raise("TypeError", message, w)
             ELSE Return(PyFalse, w)
    ELSE Return(PyTrue, <<>>)

(***************************************************************************)
(* have_same_index                                                         *)
(***************************************************************************)
\* set(x.index)
IndexSet(x) == {x.index[i] : i \in 1..Len(x.index)}

\* A variant that checks source before target.
have_same_index_SourceFirst(target, source, target_name, source_name, warn, error) ==
    LET b == is_series_dataframe(source, source_name, warn, error) IN
    IF b.kind = "raise" THEN b
    ELSE IF ~b.value.b THEN Return(PyFalse, b.warns)
    ELSE LET a == is_series_dataframe(target, target_name, warn, error) IN
         IF a.kind = "raise" THEN a
         ELSE IF ~a.value.b THEN Return(PyFalse, a.warns)
         ELSE IF IndexSet(target) = IndexSet(source)
         THEN Return(PyTrue, <<>>)
         ELSE LET message == <<target_name, " and ", source_name,
                               " don't share the same index.">>
                  w == IF warn THEN <<message \o <<" Ignore it.">>>> ELSE <<>>
              IN  IF error THEN Raise("ValueError", message, w)
                  ELSE Return(PyNone, w)

have_same_index(target, source, target_name, source_name, warn, error) ==
    LET a == is_series_dataframe(target, target_name, warn, error) IN
    IF a.kind = "raise" THEN a
    ELSE IF ~a.value.b THEN Return(PyFalse, a.warns)
    ELSE LET b == is_series_dataframe(source, source_name, warn, error) IN
         IF b.kind = "raise" THEN [b EXCEPT !.warns = a.warns \o b.warns]
         ELSE IF ~b.value.b THEN Return(PyFalse, a.warns \o b.warns)
         ELSE IF IndexSet(target) = IndexSet(source)
         THEN Return(PyTrue, a.warns \o b.warns)
         ELSE LET message == <<target_name, " and ", source_name,
                               " don't share the same index.">>
                  w == IF warn THEN a.warns \o b.warns \o <<message \o <<" Ignore it.">>>>
                       ELSE a.warns \o b.warns
              IN  IF error THEN Raise("ValueError", message, w)
                  ELSE Return(PyNone, w)

(***************************************************************************)
(* read_series                                                             *)
(***************************************************************************)
\* bool(v) of a returned value: None is falsy.
Truthy(v) == v.type = "bool" /\ v.b

\* pd.read_csv(path, sep='\t', index_col=0, header=None, squeeze=True) of a
\* two column file: the first column is the index, the second the values.
read_csv(fs, path) ==
    LET rows == fs[path].rows IN
    Series([i \in 1..Len(rows) |-> rows[i].label],
           [i \in 1..Len(rows) |-> Fin(rows[i].value)])

read_series(fs, target, warn, error) ==
    IF target.type = "Series"
    THEN Return(target, <<>>)
    ELSE LET f == is_file(fs, target, "variable", FALSE, FALSE) IN
         IF f.kind = "raise" THEN f
         ELSE IF Truthy(f.value)
         THEN Return(read_csv(fs, realpath(target.path)), f.warns)
         ELSE LET message == Fmt(target) \o <<" does not exist.">>
                  w == IF warn THEN f.warns \o <<message \o <<" Ignore it.">>>>
                       ELSE f.warns
              IN  IF error THEN Raise("FileNotFoundError", message, w)
                  ELSE Return(PyNone, w)

(***************************************************************************)
(* augment_data and reduce_data                                            *)
(***************************************************************************)
RECURSIVE Sum(_)
Sum(s) == IF s = <<>> THEN 0 ELSE Head(s).v + Sum(Tail(s))

RECURSIVE Max(_)
Max(s) == IF Len(s) = 1 THEN s[1].v
          ELSE LET m == Max(Tail(s)) IN IF s[1].v > m THEN s[1].v ELSE m

RECURSIVE Min(_)
Min(s) == IF Len(s) = 1 THEN s[1].v
          ELSE LET m == Min(Tail(s)) IN IF s[1].v < m THEN s[1].v ELSE m

\* y = 2^e for some e >= 0, and that e.
RECURSIVE IsPow2(_)
IsPow2(y) == y = 1 \/ (y > 1 /\ y % 2 = 0 /\ IsPow2(y \div 2))

RECURSIVE Exponent(_)
Exponent(y) == IF y = 1 THEN 0 ELSE 1 + Exponent(y \div 2)

\* target + 1, element-wise, of finite elements.
Add1(x) == Fin(x.v + 1)

\* np.log2 of a finite element: nan below zero, -inf at zero; a power of two
\* has an integral logarithm and any other number an irrational one.
Log2(x) ==
    IF x.v < 0 THEN NaN
    ELSE IF x.v = 0 THEN Inf(-1)
    ELSE IF IsPow2(x.v) THEN Fin(Exponent(x.v))
    ELSE [k |-> "log2", v |-> x.v]

\* -1 * x
Neg(x) ==
    CASE x.k = "fin" -> Fin(-x.v)
      [] x.k = "inf" -> Inf(-x.v)
      [] x.k = "nan" -> NaN
      [] x.k = "log2" -> [k |-> "neglog2", v |-> x.v]
      [] x.k = "neglog2" -> [k |-> "log2", v |-> x.v]

\* a == b of two floats: nan equals nothing, itself included.
FloatEq(a, b) == a.k # "nan" /\ b.k # "nan" /\ a = b

\* -1 * target, element-wise.
Negated(s) == [i \in 1..Len(s) |-> Neg(s[i])]

\* target.reshape(-1)
reshape(target) == NdArray("ndarray", <<Len(target.data)>>, target.data)

\* np.isclose(np.mean(target), 0): |mean - 0| <= atol + rtol * |0|, atol = 1e-8,
\* that is |sum| <= n / 10^8 for the integral sum of n elements; the mean of an
\* empty array is nan, which is close to nothing.
MeanIsCloseToZero(data) ==
    Len(data) > 0 /\ Abs(Sum(data)) <= Len(data) \div 100000000

\* A variant that mirrors the half it keeps only when it took the logarithm.
augment_data_MirrorOnlyLogged(target, name, warn) ==
    LET flat == reshape(target).data
        w1 == IF MeanIsCloseToZero(flat) /\ warn
              THEN <<(<<name, " has already been centered.">>)>> ELSE <<>>
    IN  IF Len(flat) = 0
        THEN Raise("ValueError",
                   <<"zero-size array to reduction operation maximum which has no identity">>,
                   w1)
        ELSE IF Max(flat) < 100 /\ Min(flat) < 0
        THEN Return(NdArray("ndarray", <<2 * Len(flat)>>, flat \o flat),
                    IF warn
                    THEN w1 \o <<(<<name, " might already been log-transformed. Ignore it.">>)>>
                    ELSE w1)
        ELSE LET logged == [i \in 1..Len(flat) |-> Log2(Add1(flat[i]))]
             IN  Return(NdArray("ndarray", <<2 * Len(logged)>>, logged \o Negated(logged)), w1)

augment_data(target, name, warn) ==
    LET flat == reshape(target).data
        centered == MeanIsCloseToZero(flat)
        w1 == IF centered /\ warn
              THEN <<(<<name, " has already been centered.">>)>> ELSE <<>>
    IN  IF Len(flat) = 0
        THEN Raise("ValueError",
                   <<"zero-size array to reduction operation maximum which has no identity">>,
                   w1)
        ELSE IF Max(flat) < 100 /\ Min(flat) < 0
        THEN LET w2 == IF warn
                       THEN w1 \o <<(<<name, " might already been log-transformed. Ignore it.">>)>>
                       ELSE w1
             IN  Return(NdArray("ndarray", <<2 * Len(flat)>>, flat \o Negated(flat)), w2)
        ELSE LET logged == [i \in 1..Len(flat) |-> Log2(Add1(flat[i]))]
             IN  Return(NdArray("ndarray", <<2 * Len(logged)>>, logged \o Negated(logged)), w1)

\* np.split(target, 2, axis=axis)[0] of an array of one or two dimensions.
reduce_data(target, axis) ==
    LET shape == target.shape IN
    IF axis >= Len(shape)
    THEN Raise("IndexError", <<"tuple index out of range">>, <<>>)
    ELSE IF shape[axis + 1] % 2 # 0
    THEN Raise("ValueError", <<"array split does not result in an equal division">>, <<>>)
    ELSE IF Len(shape) = 1
    THEN Return(NdArray("ndarray", <<shape[1] \div 2>>,
                        SubSeq(target.data, 1, shape[1] \div 2)), <<>>)
    ELSE IF axis = 0
    THEN Return(NdArray("ndarray", <<shape[1] \div 2, shape[2]>>,
                        SubSeq(target.data, 1, (shape[1] \div 2) * shape[2])), <<>>)
    ELSE LET half == shape[2] \div 2 IN
         Return(NdArray("ndarray", <<shape[1], half>>,
                        [i \in 1..(shape[1] * half) |->
                            target.data[((i - 1) \div half) * shape[2]
                                        + ((i - 1) % half) + 1]]), <<>>)

\* reduce_data(augment_data(v)): an exception of the inner call propagates.
reduce_augment(target, name, warn) ==
    LET a == augment_data(target, name, warn) IN
    IF a.kind = "raise" THEN a
    ELSE [reduce_data(a.value, 0) EXCEPT !.warns = a.warns \o @]

(***************************************************************************)
(* likelihood_ratio_test                                                   *)
(***************************************************************************)
DefaultDf == 4

\* stats.chi2.sf(x, df): the upper tail probability at x of the chi-squared
\* distribution with df degrees of freedom, kept as the pair it is a function of.
chi2_sf(x, df) == [type |-> "float", sf_at |-> x, sf_df |-> df]

\* A variant that takes the difference the other way round.
likelihood_ratio_test_Swapped(log_likelihood_simplified, log_likelihood_complex, df) ==
    LET likelihood_ratio == 2 * (log_likelihood_simplified - log_likelihood_complex)
    IN  Return(chi2_sf(likelihood_ratio, df), <<>>)

likelihood_ratio_test(log_likelihood_simplified, log_likelihood_complex, df) ==
    LET likelihood_ratio == 2 * (log_likelihood_complex - log_likelihood_simplified)
    IN  Return(chi2_sf(likelihood_ratio, df), <<>>)

(***************************************************************************)
(* The arguments the calls are made with.                                  *)
(***************************************************************************)
Names == {"variable", "n"}

IndexNames == {"variable 1", "variable 2"}

Numbers ==
    {PyNum(t, 2 * v) : t \in {"int", "numpy.int64"}, v \in -MaxInt..MaxInt}
    \cup {PyNum(t, tw) : t \in {"float", "numpy.float64", "complex"},
                         tw \in (-2 * MaxInt)..(2 * MaxInt)}
    \cup {PyTrue, PyFalse}

\* Paths, as their components: two relative ones and an absolute one.
Strs == {PyStr(<<"a.tsv">>), PyStr(<<"b.tsv">>), PyStr(Cwd \o <<"a.tsv">>)}

Zeros(n) == [i \in 1..n |-> Fin(0)]

\* Lists and arrays of zero, one and two dimensions.
SmallArrays ==
    {NdArray(t, <<n>>, Zeros(n)) : t \in {"list", "ndarray"}, n \in 0..2}
    \cup {NdArray(t, <<r, c>>, Zeros(r * c)) : t \in {"list", "ndarray"},
                                               r \in 1..2, c \in 1..2}
    \cup {NdArray("ndarray", <<>>, Zeros(1))}

Labels == {"x", "y", "z"}

Indexes == SeqsUpTo(Labels, MaxIndex)

Labeled ==
    {Series(idx, Zeros(Len(idx))) : idx \in Indexes}
    \cup {DataFrame(idx) : idx \in Indexes}

Anys == Numbers \cup Strs \cup {PyNone} \cup SmallArrays \cup Labeled

\* The arguments of have_same_index: the labeled ones and some that are not.
IndexArgs ==
    Labeled \cup {PyNone, PyNum("int", 2), PyStr(<<"a.tsv">>),
                  NdArray("list", <<2>>, Zeros(2))}

\* The arguments of read_series: a series, a path, or something else.
ReadArgs ==
    {Series(idx, Zeros(Len(idx))) : idx \in Indexes}
    \cup Strs \cup {PyNone, PyNum("int", 2), PyNum("float", 3)}

\* The file systems: each path of the working directory is absent, a
\* directory, or a two column file.
Row(l, v) == [label |-> l, value |-> v]

Entries ==
    {[kind |-> "absent", rows |-> <<>>], [kind |-> "dir", rows |-> <<>>],
     [kind |-> "file", rows |-> <<Row("x", 1)>>],
     [kind |-> "file", rows |-> <<Row("y", 2), Row("x", 1)>>]}

FileSystems == [{Cwd \o <<"a.tsv">>, Cwd \o <<"b.tsv">>} -> Entries]

\* The elements of the arrays: small ones around zero, the two around the
\* threshold of augment_data, and one above it.
Values == (-MaxNeg..1) \cup {99, 100, 127}

Shapes(n) ==
    {<<n>>}
    \cup {sh \in {<<r, c>> : r \in 0..MaxLen, c \in 0..MaxLen} : sh[1] * sh[2] = n}

Vectors ==
    UNION {{NdArray("ndarray", sh, [i \in 1..Len(d) |-> Fin(d[i])]) : sh \in Shapes(Len(d))}
           : d \in SeqsUpTo(Values, MaxLen)}

LogLikelihoods == -MaxLL..MaxLL

DegreesOfFreedom == -1..MaxLL

(***************************************************************************)
(* The state machine.  The functions keep no state between calls, so a      *)
(* behaviour is one call: Init draws the function and its arguments, and   *)
(* the action of that function runs it and records its outcome.            *)
(***************************************************************************)
Pending == [kind |-> "pending", value |-> PyNone, exc |-> "", msg |-> <<>>, warns |-> <<>>]

ValidatorCalls(fn) ==
    [fn : {fn}, target : Anys, name : Names, warn : BOOLEAN, error : BOOLEAN]

\* df is left out of the call (and is DefaultDf) or given.
Init ==
    /\ result = Pending
    /\ \/ call \in ValidatorCalls("is_integer")
       \/ call \in ValidatorCalls("is_positive_integer")
       \/ call \in ValidatorCalls("is_1darray")
       \/ call \in ValidatorCalls("is_series_dataframe")
       \/ call \in [fn : {"is_file"}, fs : FileSystems, target : Anys, name : Names,
                    warn : BOOLEAN, error : BOOLEAN]
       \/ call \in [fn : {"have_same_index"}, target : IndexArgs, source : IndexArgs,
                    target_name : IndexNames, source_name : IndexNames,
                    warn : BOOLEAN, error : BOOLEAN]
       \/ call \in [fn : {"read_series"}, fs : FileSystems, target : ReadArgs,
                    warn : BOOLEAN, error : BOOLEAN]
       \/ call \in [fn : {"augment_data", "reduce_augment"}, target : Vectors,
                    name : Names, warn : BOOLEAN]
       \/ call \in [fn : {"reduce_data"}, target : Vectors, axis : {0, 1}]
       \/ call \in [fn : {"likelihood_ratio_test"},
                    log_likelihood_simplified : LogLikelihoods,
                    log_likelihood_complex : LogLikelihoods,
                    df_given : {TRUE}, df : DegreesOfFreedom]
       \/ call \in [fn : {"likelihood_ratio_test"},
                    log_likelihood_simplified : LogLikelihoods,
                    log_likelihood_complex : LogLikelihoods,
                    df_given : {FALSE}, df : {DefaultDf}]

Called(fn) == call.fn = fn /\ result.kind = "pending"

IsInteger ==
    /\ Called("is_integer")
    /\ result' = is_integer(call.target, call.name, call.warn, call.error)
    /\ UNCHANGED call

IsPositiveInteger ==
    /\ Called("is_positive_integer")
    /\ result' = is_positive_integer(call.target, call.name, call.warn, call.error)
    /\ UNCHANGED call

Is1dArray ==
    /\ Called("is_1darray")
    /\ result' = is_1darray(call.target, call.name, call.warn, call.error)
    /\ UNCHANGED call

IsFile ==
    /\ Called("is_file")
    /\ result' = is_file(call.fs, call.target, call.name, call.warn, call.error)
    /\ UNCHANGED call

IsSeriesDataframe ==
    /\ Called("is_series_dataframe")
    /\ result' = is_series_dataframe(call.target, call.name, call.warn, call.error)
    /\ UNCHANGED call

HaveSameIndex ==
    /\ Called("have_same_index")
    /\ result' = have_same_index(call.target, call.source, call.target_name,
                                 call.source_name, call.warn, call.error)
    /\ UNCHANGED call

ReadSeries ==
    /\ Called("read_series")
    /\ result' = read_series(call.fs, call.target, call.warn, call.error)
    /\ UNCHANGED call

AugmentData ==
    /\ Called("augment_data")
    /\ result' = augment_data(call.target, call.name, call.warn)
    /\ UNCHANGED call

ReduceData ==
    /\ Called("reduce_data")
    /\ result' = reduce_data(call.target, call.axis)
    /\ UNCHANGED call

ReduceAugment ==
    /\ Called("reduce_augment")
    /\ result' = reduce_augment(call.target, call.name, call.warn)
    /\ UNCHANGED call

LikelihoodRatioTest ==
    /\ Called("likelihood_ratio_test")
    /\ result' = likelihood_ratio_test(call.log_likelihood_simplified,
                                       call.log_likelihood_complex, call.df)
    /\ UNCHANGED call

Next ==
    \/ IsInteger
    \/ IsPositiveInteger
    \/ Is1dArray
    \/ IsFile
    \/ IsSeriesDataframe
    \/ HaveSameIndex
    \/ ReadSeries
    \/ AugmentData
    \/ ReduceData
    \/ ReduceAugment
    \/ LikelihoodRatioTest

Spec == Init /\ [][Next]_vars

(***************************************************************************)
(* Vocabulary of the properties.                                           *)
(***************************************************************************)
Done == result.kind # "pending"

ValidatorFns ==
    {"is_integer", "is_positive_integer", "is_1darray", "is_file",
     "is_series_dataframe", "have_same_index"}

IsLabeled(x) == x.type \in {"Series", "DataFrame"}

\* x is an integral number: an integer, or a float with no fractional part.
Integral(x) ==
    \/ x.type \in {"int", "numpy.int64", "bool"}
    \/ x.type \in {"float", "numpy.float64"} /\ Twice(x) % 2 = 0

\* The call is is_file or read_series of a string that names no regular file.
MissingPath ==
    /\ call.target.type = "str"
    /\ ~isfile(call.fs, realpath(call.target.path))

\* The arguments of the call are ones its validator rejects in one of its
\* failure branches (the branches that build a message and report it), other
\* than the missing-file branch of is_file.
FailureSite ==
    CASE call.fn = "is_integer" ->
            \/ call.target.type \in {"float", "numpy.float64"} /\ ~Integral(call.target)
            \/ call.target.type \notin {"int", "numpy.int64", "bool", "float",
                                        "numpy.float64", "complex", "numpy.complex128"}
      [] call.fn = "is_positive_integer" ->
            \/ call.target.type \in {"float", "numpy.float64"} /\ ~Integral(call.target)
            \/ call.target.type \notin {"int", "numpy.int64", "bool", "float",
                                        "numpy.float64", "complex", "numpy.complex128"}
            \/ Integral(call.target) /\ Twice(call.target) <= 0
      [] call.fn = "is_1darray" ->
            /\ call.target.type # "Series"
            /\ ~(call.target.type \in {"list", "ndarray"} /\ Len(call.target.shape) = 1)
      [] call.fn = "is_file" -> call.target.type # "str"
      [] call.fn = "is_series_dataframe" -> ~IsLabeled(call.target)
      [] call.fn = "have_same_index" ->
            \/ ~IsLabeled(call.target)
            \/ ~IsLabeled(call.source)
            \/ IndexSet(call.target) # IndexSet(call.source)
      [] OTHER -> FALSE

IgnoreIt == <<" Ignore it.">>

(***************************************************************************)
(* C1.  read_series of a string path that names no existing regular file   *)
(* returns None and raises nothing when warn and error are both off, and   *)
(* raises FileNotFoundError when error is on.                              *)
(* The code calls is_file(target) with is_file's default flags, and        *)
(* is_file raises TypeError for a missing file whenever warn is off: the   *)
(* branch of read_series that reports the missing file is never reached    *)
(* for a string.                                                           *)
(***************************************************************************)
C1_ReadSeriesMissingPath ==
    (call.fn = "read_series" /\ Done /\ MissingPath) =>
        /\ (~call.warn /\ ~call.error) =>
                (result.kind = "return" /\ result.value = PyNone)
        /\ call.error =>
                (result.kind = "raise" /\ result.exc = "FileNotFoundError")

\* What the code does there: TypeError, whatever the flags, and no warning.
ReadSeriesMissingPathRaisesTypeError ==
    (call.fn = "read_series" /\ Done /\ MissingPath) =>
        (result.kind = "raise" /\ result.exc = "TypeError" /\ result.warns = <<>>)

(***************************************************************************)
(* C2.  For two labeled arguments, have_same_index under the default       *)
(* policy returns the boolean true when their label sets are equal and     *)
(* the boolean false when they differ.                                     *)
(* The code returns True for equal sets, but on a mismatch with error off  *)
(* it falls off the end of the function and returns None.                  *)
(***************************************************************************)
C2_SameIndexIffEqualLabelSets ==
    (/\ call.fn = "have_same_index" /\ Done
     /\ IsLabeled(call.target) /\ IsLabeled(call.source)
     /\ ~call.warn /\ ~call.error) =>
        /\ result.kind = "return"
        /\ result.value = PyBool(IndexSet(call.target) = IndexSet(call.source))

\* What the code does: True exactly on equal label sets, None otherwise.
SameIndexTrueOrNone ==
    (/\ call.fn = "have_same_index" /\ Done
     /\ IsLabeled(call.target) /\ IsLabeled(call.source) /\ ~call.error) =>
        /\ result.kind = "return"
        /\ result.value = (IF IndexSet(call.target) = IndexSet(call.source)
                           THEN PyTrue ELSE PyNone)

(***************************************************************************)
(* C3.  A validator called with error off (is_file: on an argument that is *)
(* not a string) never raises and returns a boolean, and with warn off as  *)
(* well it emits no warning.                                               *)
(* have_same_index returns None on a mismatch (C2), and is_integer, hence  *)
(* is_positive_integer, raises AttributeError on a complex number (C9).    *)
(***************************************************************************)
C3_NoRaiseWithoutError ==
    (/\ Done /\ call.fn \in ValidatorFns /\ ~call.error
     /\ (call.fn = "is_file" => call.target.type # "str")) =>
        /\ result.kind = "return"
        /\ result.value.type = "bool"
        /\ (result.value.b <=> ~FailureSite)
        /\ ~call.warn => result.warns = <<>>

C6_FirstSubCheckDecides ==
    (/\ call.fn = "have_same_index" /\ Done
     /\ (~IsLabeled(call.target) \/ ~IsLabeled(call.source))) =>
        LET first == IF ~IsLabeled(call.target) THEN call.target_name
                     ELSE call.source_name
        IN  /\ Len(result.warns) = (IF call.warn THEN 1 ELSE 0)
            /\ call.warn => result.warns[1][1] = first
            /\ IF call.error
               THEN /\ result.kind = "raise"
                    /\ result.exc = "TypeError"
                    /\ result.msg[1] = first
               ELSE result.kind = "return" /\ result.value = PyFalse

C6_Witness ==
    /\ call.fn = "have_same_index" /\ Done
    /\ ~IsLabeled(call.target) /\ ~IsLabeled(call.source)
    /\ call.target_name # call.source_name
    /\ call.error
    /\ result.kind = "raise" /\ result.msg[1] = call.target_name

(***************************************************************************)
(* C7.  For a vector of n elements, n >= 0, of any shape,                  *)
(* reduce_data(augment_data(v)) completes without error and has n          *)
(* elements.                                                               *)
(* For n = 0 the diagnostic check of augment_data takes np.max of an empty *)
(* array, which raises ValueError; the round trip never reaches            *)
(* reduce_data.                                                            *)
(***************************************************************************)
C7_RoundTripLength ==
    (call.fn = "reduce_augment" /\ Done) =>
        /\ result.kind = "return"
        /\ result.value.shape = <<Len(call.target.data)>>
        /\ Len(result.value.data) = Len(call.target.data)

\* What the code does: the round trip keeps the length of every vector that
\* is not empty, whatever its shape and whichever branch augment_data takes.
RoundTripLengthNonEmpty ==
    (call.fn = "reduce_augment" /\ Done) =>
        IF Len(call.target.data) = 0
        THEN result.kind = "raise" /\ result.exc = "ValueError"
        ELSE /\ result.kind = "return"
             /\ result.value.shape = <<Len(call.target.data)>>
             /\ Len(result.value.data) = Len(call.target.data)

(***************************************************************************)
(* C8, as claimed.  Every vector a that augment_data returns for n         *)
(* elements has 2n elements and a[n+i] == -a[i] for every i, on both       *)
(* paths.  (== is the comparison of floats: nan == nan is false.)          *)
(***************************************************************************)
C8_SecondHalfEqualsNegatedFirst ==
    (call.fn = "augment_data" /\ Done /\ result.kind = "return") =>
        LET n == Len(call.target.data)
            a == result.value.data
        IN  /\ Len(a) = 2 * n
            /\ \A i \in 1..n : FloatEq(a[n + i], Neg(a[i]))

(***************************************************************************)
(* C8, amended.  Every vector a that augment_data returns for n elements   *)
(* has 2n elements and, on both paths, a[n+i] == -a[i] for every i where   *)
(* a[i] is not nan, and a[n+i] is nan where a[i] is nan (the log step      *)
(* applied to an element below -1).                                        *)
(***************************************************************************)
C8_SecondHalfNegatesFirst ==
    (call.fn = "augment_data" /\ Done /\ result.kind = "return") =>
        LET n == Len(call.target.data)
            a == result.value.data
        IN  /\ Len(a) = 2 * n
            /\ result.value.shape = <<2 * n>>
            /\ \A i \in 1..n :
                  IF a[i].k = "nan" THEN a[n + i].k = "nan"
                  ELSE FloatEq(a[n + i], Neg(a[i]))

\* The log step was applied, to an element below -1 and to others.
C8_Witness ==
    /\ call.fn = "augment_data" /\ Done /\ result.kind = "return"
    /\ Len(call.target.data) >= 2
    /\ \E i, j \in 1..Len(call.target.data) :
          /\ call.target.data[i].v < -1
          /\ result.value.data[i].k = "nan"
          /\ call.target.data[j].v = 127
          /\ result.value.data[j] = Fin(7)

(***************************************************************************)
(* C9.  is_positive_integer(x) returns True exactly when is_integer(x) is  *)
(* true and x > 0; under the default policy it returns False for an        *)
(* integral x <= 0 and for every x that is not integral.  When the integer *)
(* check fails it is is_integer that reports, once, with the caller's      *)
(* flags, and the positivity check is not made.                            *)
(* A complex number is not integral, and is_integer raises AttributeError  *)
(* on it (it passes np.issubdtype(dtype, np.inexact) and has no            *)
(* is_integer method) instead of reporting a TypeError or returning False. *)
(***************************************************************************)
C9_PositiveInteger ==
    (call.fn = "is_positive_integer" /\ Done) =>
        LET x == call.target
            r == is_integer(x, call.name, call.warn, call.error)
        IN  /\ (result.kind = "return" /\ result.value = PyTrue)
                  <=> (Integral(x) /\ Twice(x) > 0)
            /\ (~call.warn /\ ~call.error /\ ~(Integral(x) /\ Twice(x) > 0)) =>
                  (result.kind = "return" /\ result.value = PyFalse
                   /\ result.warns = <<>>)
            /\ ~Integral(x) =>
                  /\ Len(result.warns) = (IF call.warn THEN 1 ELSE 0)
                  /\ result.warns = r.warns
                  /\ IF call.error
                     THEN result.kind = "raise" /\ result.exc \in {"TypeError", "ValueError"}
                          /\ result.msg = r.msg
                     ELSE result.kind = "return" /\ result.value = PyFalse

\* What the code does on every argument that is not complex.
PositiveIntegerExceptComplex ==
    (/\ call.fn = "is_positive_integer" /\ Done
     /\ call.target.type \in {"complex", "numpy.complex128"})
    \/ C9_PositiveInteger

(***************************************************************************)
(* C10.  likelihood_ratio_test returns the chi-squared survival function   *)
(* with df degrees of freedom at exactly                                   *)
(* 2 * (log_likelihood_complex - log_likelihood_simplified), df being 4    *)
(* when it is left out; it validates nothing, so it returns that value     *)
(* also when the complex likelihood is the smaller one or df <= 0, and it  *)
(* neither warns nor raises.                                               *)
(***************************************************************************)
C10_LikelihoodRatio ==
    (call.fn = "likelihood_ratio_test" /\ Done) =>
        /\ result.kind = "return"
        /\ result.warns = <<>>
        /\ result.value.sf_at =
              2 * (call.log_likelihood_complex - call.log_likelihood_simplified)
        /\ result.value.sf_df = (IF call.df_given THEN call.df ELSE 4)

C10_Witness ==
    /\ call.fn = "likelihood_ratio_test" /\ Done
    /\ call.log_likelihood_complex < call.log_likelihood_simplified
    /\ call.df_given /\ call.df <= 0
    /\ result.kind = "return"
    /\ result.value.sf_at < 0

(***************************************************************************)
(* C11.  The two data checks of augment_data are diagnostic only: neither  *)
(* ever raises, and the warn flag decides only whether warnings are        *)
(* emitted, never the vector returned.  The log step x <- log2(x + 1) is   *)
(* skipped exactly when the maximum is below 100 and the minimum is        *)
(* negative, and applied on every other input, whatever the near-zero-mean *)
(* check found.                                                            *)
(* On an empty array the second check raises: np.max has no value for it   *)
(* and raises ValueError (the input of C7), so nothing is returned.        *)
(***************************************************************************)
C11_ChecksAreDiagnosticOnly ==
    (call.fn = "augment_data" /\ Done) =>
        LET flat == call.target.data
            n == Len(flat)
            skipped == n > 0 /\ Max(flat) < 100 /\ Min(flat) < 0
            other == augment_data(call.target, call.name, ~call.warn)
        IN  /\ result.kind = "return"
            /\ other.kind = "return"
            /\ other.value = result.value
            /\ ~call.warn => result.warns = <<>>
            /\ Len(result.value.data) = 2 * n
            /\ \A i \in 1..n :
                  result.value.data[i] =
                      (IF skipped THEN flat[i] ELSE Log2(Add1(flat[i])))

\* What the code does: all of the above on every array that is not empty, the
\* centered and the uncentered ones alike, and ValueError on the empty ones.
ChecksAreDiagnosticOnlyNonEmpty ==
    (call.fn = "augment_data" /\ Done) =>
        IF Len(call.target.data) = 0
        THEN result.kind = "raise" /\ result.exc = "ValueError"
        ELSE C11_ChecksAreDiagnosticOnly

====
